---------------------------- MODULE Spec2Model ----------------------------
(* A model of src/main.py: the PDF-to-image composition pipeline.          *)
(*                                                                         *)
(*   Spec      the whole program under asyncio's FIFO ready queue          *)
(*   SpecPerm  the same program when the page render tasks of a file may   *)
(*             complete in any order                                       *)
(*   SpecRect  convert_rect alone, applied to inputs from bounded sets     *)
EXTENDS Integers, Sequences, FiniteSets, TLC

VARIABLES
    argv,            \* sys.argv[1:], the input paths
    main_pc,         \* main: "parsing" | "awaiting" | "done"
    pdf_files,       \* what PdfReader found, one document per file read so far
    file_attributes, \* what parse_file returned, one list per file parsed so far
    ready,           \* the event loop's queue of ready callbacks, oldest first
    file_pc,         \* construct_image_from_file, per file: "created" | "awaiting" | "done" | "failed"
    document,        \* native document handle, per file: "none" | "open" | "closed"
    page,            \* native page handles, per file and page: "open" | "closed"
    bitmap,          \* native bitmap handles, per file and page: "none" | "allocated" | "destroyed"
    result,          \* result of each page render task, per file and page
    finished,        \* per file, the page tasks in the order they completed
    images,          \* per file, the list asyncio.gather returned
    output_image,    \* per file, the canvas: its size and the pastes made into it
    written,         \* the output files save has written to, oldest first
    files_finished,  \* file tasks main's gather has seen complete
    calls,           \* the calls made into the extractor and the rasterizer, oldest first
    exit_code,       \* Running, or the status the process ended with
    exit_cause,      \* why the process ended
    cr_pc,       \* SpecRect: "idle" | "call" | "returned" | "raised" | "reapplied"
    cr_height,   \* SpecRect: the page_height argument
    cr_rect,     \* SpecRect: the rect argument
    cr_out,      \* SpecRect: convert_rect(page_height, rect)
    cr_back      \* SpecRect: convert_rect(page_height, cr_out)

cr_vars == <<cr_pc, cr_height, cr_rect, cr_out, cr_back>>

task_vars == <<file_pc, document, page, bitmap, result, finished, images,
               output_image, written, files_finished>>

main_vars == <<argv, main_pc, pdf_files, file_attributes>>

vars == <<main_vars, ready, task_vars, calls, exit_code, exit_cause, cr_vars>>

-----------------------------------------------------------------------------
(* Numbers.  A Python float is an IEEE-754 double: a sign and a magnitude   *)
(* with at most MantissaBits significant bits.  A magnitude is the set of   *)
(* its one-bits; bit position i weighs 2^(i - FracBits), so position 0 is   *)
(* the unit in the last place of 1.0.                                       *)

MantissaBits == 53

FracBits == MantissaBits - 1

Max(S) == CHOOSE x \in S : \A y \in S : y <= x

Min(S) == CHOOSE x \in S : \A y \in S : x <= y

RECURSIVE BitsOf(_, _)
\* the one-bits of the natural n, the lowest one at position p
BitsOf(n, p) ==
    IF n = 0 THEN {}
    ELSE (IF n % 2 = 1 THEN {p} ELSE {}) \cup BitsOf(n \div 2, p + 1)

\* the number n as Python holds it (n an integer of small magnitude)
Num(n) ==
    IF n < 0 THEN [neg |-> TRUE, mag |-> BitsOf(0 - n, FracBits)]
    ELSE [neg |-> FALSE, mag |-> BitsOf(n, FracBits)]

MagLess(a, b) == a # b /\ Max((a \ b) \cup (b \ a)) \in b

\* a + 2^p
MagInc(a, p) ==
    LET q == Min({i \in p..(Max(a \cup {p}) + 1) : i \notin a})
    IN  (a \ (p..(q - 1))) \cup {q}

\* a - 2^p, for a >= 2^p
MagDec(a, p) ==
    LET q == Min({i \in a : i >= p})
    IN  (a \ {q}) \cup (p..(q - 1))

RECURSIVE MagAdd(_, _)
MagAdd(a, b) ==
    IF b = {} THEN a
    ELSE LET p == Max(b) IN MagAdd(MagInc(a, p), b \ {p})

RECURSIVE MagSub(_, _)
\* a - b, for a >= b
MagSub(a, b) ==
    IF b = {} THEN a
    ELSE LET p == Max(b) IN MagSub(MagDec(a, p), b \ {p})

\* the exact difference x - y
ExactSub(x, y) ==
    LET r == IF x.neg # y.neg
                THEN [neg |-> x.neg, mag |-> MagAdd(x.mag, y.mag)]
             ELSE IF MagLess(x.mag, y.mag)
                THEN [neg |-> ~x.neg, mag |-> MagSub(y.mag, x.mag)]
             ELSE [neg |-> x.neg, mag |-> MagSub(x.mag, y.mag)]
    IN  IF r.mag = {} THEN [neg |-> FALSE, mag |-> {}] ELSE r

\* the double nearest to x, ties to the even mantissa
Float(x) ==
    IF x.mag = {} THEN x
    ELSE LET cut    == Max(x.mag) - MantissaBits + 1
             low    == {i \in x.mag : i < cut}
             kept   == x.mag \ low
             half   == (cut - 1) \in low
             sticky == \E i \in low : i < cut - 1
             up     == half /\ (sticky \/ cut \in kept)
         IN  [neg |-> x.neg, mag |-> IF up THEN MagInc(kept, cut) ELSE kept]

\* x is a double
IsFloat(x) == Float(x) = x

-----------------------------------------------------------------------------
(* convert_rect, src/main.py:22-33 *)

AssertionError == [raised |-> TRUE, value |-> <<>>]

Return(v) == [raised |-> FALSE, value |-> v]

convert_rect_flipped(page_height, rect) ==
    IF Len(rect) # 4 THEN AssertionError
    ELSE Return(<< rect[1],
                   Float(ExactSub(page_height, rect[2])),
                   rect[3],
                   Float(ExactSub(page_height, rect[4])) >>)

convert_rect_one_sided(page_height, rect) ==
    IF Len(rect) # 4 THEN AssertionError
    ELSE Return(<< rect[1],
                   Float(ExactSub(page_height, rect[4])),
                   rect[3],
                   Float(ExactSub(page_height, rect[4])) >>)

convert_rect_unchecked(page_height, rect) ==
    IF Len(rect) < 4 THEN AssertionError
    ELSE Return(<< rect[1],
                   Float(ExactSub(page_height, rect[4])),
                   rect[3],
                   Float(ExactSub(page_height, rect[2])) >>)

convert_rect(page_height, rect) ==
    IF Len(rect) # 4 THEN AssertionError
    ELSE Return(<< rect[1],
                   Float(ExactSub(page_height, rect[4])),
                   rect[3],
                   Float(ExactSub(page_height, rect[2])) >>)

-----------------------------------------------------------------------------
(* Inputs: the paths of the batch and what the PDF reader finds in a file.  *)

MaxFiles == 2

\* pages of the whole batch
MaxPages == 3

Names == { <<"a", ".", "p", "d", "f">>,
           <<"B", ".", "P", "D", "F">>,
           <<"c", ".", "t", "x", "t">> }

\* an annotation reference of a page and what get_object() does with it:
\* it gives nothing (a falsy value)
NullReference == [resolves |-> FALSE, raises |-> FALSE, object |-> <<>>]

\* it raises: the object is not in the file, and the reader is a strict one
DanglingReference == [resolves |-> FALSE, raises |-> TRUE, object |-> <<>>]

\* it gives the annotation dictionary
Reference(dict) == [resolves |-> TRUE, raises |-> FALSE, object |-> dict]

\* the pages a reader may find: the media box and the annotation references
PdfPages ==
    { [width |-> 50, height |-> 100, annotations |-> <<>>],
      [width |-> 80, height |-> 200,
       annotations |-> << Reference([Rect |-> <<Num(0), Num(0), Num(80), Num(200)>>,
                                     V |-> "text"]) >>],
      [width |-> 60, height |-> 150, annotations |-> << NullReference >>],
      [width |-> 50, height |-> 100,
       annotations |-> << NullReference, Reference([V |-> "text"]) >>],
      [width |-> 80, height |-> 200,
       annotations |-> << DanglingReference,
                          Reference([Rect |-> <<Num(0), Num(0), Num(80), Num(200)>>,
                                     V |-> "text"]) >>] }

PdfDocuments(max) == UNION {[1..n -> PdfPages] : n \in 0..max}

-----------------------------------------------------------------------------
(* str.lower and str.endswith, src/main.py:141, 184 *)

LowerChar(c) ==
    CASE c = "A" -> "a" [] c = "B" -> "b" [] c = "C" -> "c" [] c = "D" -> "d"
      [] c = "F" -> "f" [] c = "P" -> "p" [] c = "T" -> "t" [] c = "X" -> "x"
      [] OTHER -> c

Lower(s) == [i \in 1..Len(s) |-> LowerChar(s[i])]

EndsWith(s, suffix) ==
    /\ Len(s) >= Len(suffix)
    /\ SubSeq(s, Len(s) - Len(suffix) + 1, Len(s)) = suffix

DotPdf == <<".", "p", "d", "f">>

\* s.rsplit(".", 1)[0]
RSplitDot(s) ==
    LET dots == {i \in 1..Len(s) : s[i] = "."}
    IN  IF dots = {} THEN s ELSE SubSeq(s, 1, Max(dots) - 1)

\* the test of the assert of line 184
IsPdf_unchecked(file_name) == TRUE

IsPdf(file_name) == EndsWith(Lower(file_name), DotPdf)

out_file_name(file_name) == RSplitDot(Lower(file_name)) \o <<".", "j", "p", "g">>

-----------------------------------------------------------------------------
(* parse_page, src/main.py:52-74 *)

\* dict.get(key, default)
Get(dict, key, default) == IF key \in DOMAIN dict THEN dict[key] ELSE default

AnnotationAttribute(rect, border, value, default_value) ==
    [rect |-> rect, border |-> border, value |-> value,
     default_value |-> default_value]

RECURSIVE AnnotationAttributes(_)
AnnotationAttributes(annotations) ==
    IF annotations = <<>> THEN <<>>
    ELSE LET annotation == Head(annotations)
             rest == AnnotationAttributes(Tail(annotations))
         IN  IF ~annotation.resolves \/ DOMAIN annotation.object = {}
                THEN rest
             ELSE << AnnotationAttribute(Get(annotation.object, "Rect", <<>>),
                                         Get(annotation.object, "Border", <<>>),
                                         Get(annotation.object, "V", ""),
                                         Get(annotation.object, "DV", "")) >> \o rest

\* get_object() raises at line 57, and nothing in parse_page catches it
parse_page_raises(pdf_page) ==
    \E k \in DOMAIN pdf_page.annotations : pdf_page.annotations[k].raises

parse_page(pdf_page, page_idx) ==
    [page_index |-> page_idx,
     width |-> pdf_page.width,
     height |-> pdf_page.height,
     annotation_attributes |-> AnnotationAttributes(pdf_page.annotations)]

-----------------------------------------------------------------------------
(* The process, the library calls and the event loop. *)

Running == -1

Call(op, f, p) == <<op, f, p>>

Files == 1..Len(argv)

Pages(f) == 1..Len(file_attributes[f])

\* entries of the ready queue
FileStart(f)  == [kind |-> "file_start", file |-> f, slot |-> 0]
PageTask(f, p) == [kind |-> "page", file |-> f, slot |-> p]
PageDone(f, p) == [kind |-> "page_done", file |-> f, slot |-> p]
FileResume(f) == [kind |-> "file_resume", file |-> f, slot |-> 0]
FileDone(f)   == [kind |-> "file_done", file |-> f, slot |-> 0]
MainResume    == [kind |-> "main_resume", file |-> 0, slot |-> 0]

Remove(q, i) == SubSeq(q, 1, i - 1) \o SubSeq(q, i + 1, Len(q))

NoImage == [page_index |-> -1, width |-> 0, height |-> 0, highlights |-> <<>>]

NoCanvas == [width |-> 0, height |-> 0, pastes |-> <<>>]

\* sys.exit(code), or an exception no handler catches: the interpreter ends
\* with the status, asyncio.run cancelling every task that has not finished
Exit(code, cause) ==
    /\ exit_code' = code
    /\ exit_cause' = cause
    /\ ready' = <<>>

Init ==
    /\ argv \in UNION {[1..n -> Names] : n \in 1..MaxFiles}
    /\ main_pc = "parsing"
    /\ pdf_files = <<>>
    /\ file_attributes = <<>>
    /\ ready = <<>>
    /\ file_pc = [f \in Files |-> "created"]
    /\ document = [f \in Files |-> "none"]
    /\ page = [f \in Files |-> <<>>]
    /\ bitmap = [f \in Files |-> <<>>]
    /\ result = [f \in Files |-> <<>>]
    /\ finished = [f \in Files |-> <<>>]
    /\ images = [f \in Files |-> <<>>]
    /\ output_image = [f \in Files |-> NoCanvas]
    /\ written = <<>>
    /\ files_finished = 0
    /\ calls = <<>>
    /\ exit_code = Running
    /\ exit_cause = "none"
    /\ cr_pc = "idle"
    /\ cr_height = Num(0)
    /\ cr_rect = <<>>
    /\ cr_out = <<>>
    /\ cr_back = <<>>

-----------------------------------------------------------------------------
(* main and parse_file, src/main.py:183-211 *)

HasNoPage_unchecked(pdf_file) == FALSE

\* the test of line 189
HasNoPage(pdf_file) == Len(pdf_file) = 0

PagesParsed ==
    LET RECURSIVE Sum(_)
        Sum(i) == IF i = 0 THEN 0 ELSE Len(file_attributes[i]) + Sum(i - 1)
    IN  Sum(Len(file_attributes))

\* main's comprehension reaches the next path: parse_file runs to its end
ParseFile ==
    /\ exit_code = Running
    /\ main_pc = "parsing"
    /\ Len(file_attributes) < Len(argv)
    /\ LET f == Len(file_attributes) + 1
           file_name == argv[f]
       IN  IF ~IsPdf(file_name)
              THEN /\ Exit(1, "not_pdf")
                   /\ UNCHANGED <<pdf_files, file_attributes, calls>>
           ELSE \/ /\ calls' = Append(calls, Call("PdfReader", f, 0))
                   /\ Exit(1, "reader_raised")
                   /\ UNCHANGED <<pdf_files, file_attributes>>
                \/ \E pdf_file \in PdfDocuments(MaxPages - PagesParsed) :
                      /\ calls' = Append(calls, Call("PdfReader", f, 0))
                      /\ pdf_files' = Append(pdf_files, pdf_file)
                      /\ IF HasNoPage(pdf_file)
                            THEN /\ Exit(1, "no_page")
                                 /\ UNCHANGED file_attributes
                         ELSE IF \E p \in DOMAIN pdf_file : parse_page_raises(pdf_file[p])
                            THEN /\ Exit(1, "parse_page_raised")
                                 /\ UNCHANGED file_attributes
                         ELSE /\ file_attributes' =
                                    Append(file_attributes,
                                           [p \in 1..Len(pdf_file) |->
                                               parse_page(pdf_file[p], p - 1)])
                              /\ UNCHANGED <<ready, exit_code, exit_cause>>
    /\ UNCHANGED <<argv, main_pc, task_vars, cr_vars>>

AllParsed_eager == Len(file_attributes) >= 1

\* the comprehension of lines 207-210 has awaited parse_file for every path
AllParsed == Len(file_attributes) = Len(argv)

\* every path is parsed: asyncio.gather makes one task per file, main waits
MainGather ==
    /\ exit_code = Running
    /\ main_pc = "parsing"
    /\ AllParsed
    /\ main_pc' = "awaiting"
    /\ ready' = [f \in DOMAIN file_attributes |-> FileStart(f)]
    /\ UNCHANGED <<argv, pdf_files, file_attributes, task_vars, calls,
                   exit_code, exit_cause, cr_vars>>

-----------------------------------------------------------------------------
(* construct_image_from_page, src/main.py:77-135 *)

RECURSIVE Draw(_, _)
\* the loop of lines 116-118: the rectangles drawn, or the assertion failing
Draw(page_height, annotation_attributes) ==
    IF annotation_attributes = <<>> THEN Return(<<>>)
    ELSE LET converted_rect ==
                 convert_rect(Num(page_height), Head(annotation_attributes).rect)
             rest == Draw(page_height, Tail(annotation_attributes))
         IN  IF converted_rect.raised \/ rest.raised THEN AssertionError
             ELSE Return(<<converted_rect.value>> \o rest.value)

RenderCalls(f, p) ==
    << Call("FPDFBitmap_Create", f, p), Call("FPDFBitmap_FillRect", f, p),
       Call("FPDF_RenderPageBitmap", f, p), Call("FPDFBitmap_GetBuffer", f, p) >>

RenderPage_close_first(f, p) ==
    /\ page' = [page EXCEPT ![f][p] = "closed"]
    /\ bitmap' = [bitmap EXCEPT ![f][p] = "destroyed"]
    /\ calls' = calls \o << Call("FPDF_ClosePage", f, p) >>
                      \o RenderCalls(f, p)
                      \o << Call("FPDFBitmap_Destroy", f, p) >>

\* lines 80-127 when nothing raises: the page is rendered into a new bitmap,
\* then the page is closed and the bitmap destroyed
RenderPage(f, p) ==
    /\ page' = [page EXCEPT ![f][p] = "closed"]
    /\ bitmap' = [bitmap EXCEPT ![f][p] = "destroyed"]
    /\ calls' = calls \o RenderCalls(f, p)
                      \o << Call("FPDF_ClosePage", f, p),
                            Call("FPDFBitmap_Destroy", f, p) >>

PageErrorIgnored(f, p, made, allocated) ==
    /\ calls' = calls \o SubSeq(RenderCalls(f, p), 1, made)
    /\ bitmap' = [bitmap EXCEPT ![f][p] = IF allocated THEN "allocated" ELSE "none"]
    /\ ready' = Append(Tail(ready), PageDone(f, p))
    /\ UNCHANGED <<page, result, exit_code, exit_cause>>

\* lines 131-135: the handler logs and exits; it frees nothing
PageErrorExit(f, p, made, allocated) ==
    /\ calls' = calls \o SubSeq(RenderCalls(f, p), 1, made)
    /\ bitmap' = [bitmap EXCEPT ![f][p] = IF allocated THEN "allocated" ELSE "none"]
    /\ Exit(1, "page_failed")
    /\ UNCHANGED <<page, result>>

\* the page task at position i of the ready queue runs: the coroutine has no
\* suspension point, so it runs from its first line to its return or exit
RunPage(i) ==
    /\ exit_code = Running
    /\ i \in DOMAIN ready
    /\ ready[i].kind = "page"
    /\ LET f == ready[i].file
           p == ready[i].slot
           page_attributes == file_attributes[f][p]
           drawn == Draw(page_attributes.height,
                         page_attributes.annotation_attributes)
       IN  \/ PageErrorExit(f, p, 1, FALSE)      \* FPDFBitmap_Create raises
           \/ PageErrorExit(f, p, 3, TRUE)       \* FPDF_RenderPageBitmap raises
           \/ /\ page_attributes.annotation_attributes # <<>>
              /\ PageErrorExit(f, p, 4, TRUE)    \* convert_rect or rectangle raises
           \/ /\ ~drawn.raised
              /\ RenderPage(f, p)
              /\ result' = [result EXCEPT ![f][p] =
                               [page_index |-> page_attributes.page_index,
                                width |-> page_attributes.width,
                                height |-> page_attributes.height,
                                highlights |-> drawn.value]]
              /\ ready' = Append(Remove(ready, i), PageDone(f, p))
              /\ UNCHANGED <<exit_code, exit_cause>>
    /\ UNCHANGED <<main_vars, file_pc, document, finished, images, output_image,
                   written, files_finished, cr_vars>>

-----------------------------------------------------------------------------
(* construct_image_from_file, src/main.py:138-180, and asyncio.gather *)

RECURSIVE total_height(_)
total_height(attributes) ==
    IF attributes = <<>> THEN 0
    ELSE Head(attributes).height + total_height(Tail(attributes))

RECURSIVE max_page_width_from(_, _)
max_page_width_from(widest, attributes) ==
    IF attributes = <<>> THEN widest
    ELSE max_page_width_from(IF Head(attributes).width > widest
                                THEN Head(attributes).width ELSE widest,
                             Tail(attributes))

max_page_width_last(attributes) ==
    IF attributes = <<>> THEN 0 ELSE attributes[Len(attributes)].width

\* lines 146-151
max_page_width(attributes) == max_page_width_from(0, attributes)

LoadPageCalls(f, n) == [p \in 1..n |-> Call("FPDF_LoadPage", f, p)]

\* a file task runs from line 141 to the await of line 153
StartFile ==
    /\ exit_code = Running
    /\ ready # <<>>
    /\ Head(ready).kind = "file_start"
    /\ LET f == Head(ready).file
           n == Len(file_attributes[f])
       IN  \/ /\ calls' = Append(calls, Call("FPDF_LoadDocument", f, 0))
              /\ Exit(1, "file_failed")
              /\ file_pc' = [file_pc EXCEPT ![f] = "failed"]
              /\ UNCHANGED <<document, page, bitmap, result>>
           \/ \E k \in 1..n :
                 /\ calls' = Append(calls, Call("FPDF_LoadDocument", f, 0))
                                \o LoadPageCalls(f, k)
                 /\ document' = [document EXCEPT ![f] = "open"]
                 /\ page' = [page EXCEPT ![f] = [p \in 1..(k - 1) |-> "open"]]
                 /\ Exit(1, "file_failed")
                 /\ file_pc' = [file_pc EXCEPT ![f] = "failed"]
                 /\ UNCHANGED <<bitmap, result>>
           \/ /\ calls' = Append(calls, Call("FPDF_LoadDocument", f, 0))
                             \o LoadPageCalls(f, n)
              /\ document' = [document EXCEPT ![f] = "open"]
              /\ page' = [page EXCEPT ![f] = [p \in 1..n |-> "open"]]
              /\ bitmap' = [bitmap EXCEPT ![f] = [p \in 1..n |-> "none"]]
              /\ result' = [result EXCEPT ![f] = [p \in 1..n |-> NoImage]]
              /\ file_pc' = [file_pc EXCEPT ![f] = "awaiting"]
              /\ ready' = Tail(ready) \o [p \in 1..n |-> PageTask(f, p)]
              /\ UNCHANGED <<exit_code, exit_cause>>
    /\ UNCHANGED <<main_vars, finished, images, output_image, written,
                   files_finished, cr_vars>>

gather_as_completed(f, completion) ==
    [k \in 1..Len(completion) |-> result[f][completion[k]]]

\* the list gather hands back once the tasks have finished in the order
\* completion: the results in the order of gather's arguments
gather(f, completion) == [p \in 1..Len(result[f]) |-> result[f][p]]

\* gather's callback for a finished page task; the last one wakes the file task
PageDoneCallback ==
    /\ exit_code = Running
    /\ ready # <<>>
    /\ Head(ready).kind = "page_done"
    /\ LET f == Head(ready).file
           p == Head(ready).slot
       IN  /\ finished' = [finished EXCEPT ![f] = Append(@, p)]
           /\ IF Len(finished'[f]) = Len(file_attributes[f])
                 THEN /\ images' = [images EXCEPT ![f] = gather(f, finished'[f])]
                      /\ ready' = Append(Tail(ready), FileResume(f))
              ELSE /\ ready' = Tail(ready)
                   /\ UNCHANGED images
    /\ UNCHANGED <<main_vars, file_pc, document, page, bitmap, result,
                   output_image, written, files_finished, calls, exit_code,
                   exit_cause, cr_vars>>

RECURSIVE Paste_increment_first(_, _)
RECURSIVE Paste(_, _)
Paste_increment_first(image_list, height_track) ==
    IF image_list = <<>> THEN <<>>
    ELSE LET image == Head(image_list)
         IN  << [page_index |-> image.page_index, x |-> 0,
                 y |-> height_track + image.height,
                 width |-> image.width, height |-> image.height] >>
             \o Paste_increment_first(Tail(image_list), height_track + image.height)

\* the loop of lines 165-170: where each image of the list is pasted
Paste(image_list, height_track) ==
    IF image_list = <<>> THEN <<>>
    ELSE LET image == Head(image_list)
         IN  << [page_index |-> image.page_index, x |-> 0, y |-> height_track,
                 width |-> image.width, height |-> image.height] >>
             \o Paste(Tail(image_list), height_track + image.height)

\* what save leaves at the path it was given: the whole JPEG, or what had
\* been written when it raised
Saved(f, complete) ==
    [file |-> f, path |-> out_file_name(argv[f]), complete |-> complete]

Canvas(f) ==
    [width |-> max_page_width(file_attributes[f]),
     height |-> total_height(file_attributes[f]),
     pastes |-> Paste(images[f], 0)]

\* a file task wakes with the images and runs from line 163 to its end
ResumeFile ==
    /\ exit_code = Running
    /\ ready # <<>>
    /\ Head(ready).kind = "file_resume"
    /\ LET f == Head(ready).file
       IN  \/ /\ Exit(1, "file_failed")               \* Image.new raises
              /\ file_pc' = [file_pc EXCEPT ![f] = "failed"]
              /\ UNCHANGED <<document, output_image, written, calls>>
           \/ /\ output_image' = [output_image EXCEPT ![f] = Canvas(f)]
              /\ Exit(1, "file_failed")               \* save raises, writing nothing
              /\ file_pc' = [file_pc EXCEPT ![f] = "failed"]
              /\ UNCHANGED <<document, written, calls>>
           \/ /\ output_image' = [output_image EXCEPT ![f] = Canvas(f)]
              /\ written' = Append(written, Saved(f, FALSE))
              /\ Exit(1, "file_failed")               \* save raises while writing
              /\ file_pc' = [file_pc EXCEPT ![f] = "failed"]
              /\ UNCHANGED <<document, calls>>
           \/ /\ output_image' = [output_image EXCEPT ![f] = Canvas(f)]
              /\ written' = Append(written, Saved(f, TRUE))
              /\ document' = [document EXCEPT ![f] = "closed"]
              /\ calls' = Append(calls, Call("FPDF_CloseDocument", f, 0))
              /\ file_pc' = [file_pc EXCEPT ![f] = "done"]
              /\ ready' = Append(Tail(ready), FileDone(f))
              /\ UNCHANGED <<exit_code, exit_cause>>
    /\ UNCHANGED <<main_vars, page, bitmap, result, finished, images,
                   files_finished, cr_vars>>

\* gather's callback for a finished file task; the last one wakes main
FileDoneCallback ==
    /\ exit_code = Running
    /\ ready # <<>>
    /\ Head(ready).kind = "file_done"
    /\ files_finished' = files_finished + 1
    /\ ready' = IF files_finished' = Len(argv)
                   THEN Append(Tail(ready), MainResume)
                ELSE Tail(ready)
    /\ UNCHANGED <<main_vars, file_pc, document, page, bitmap, result, finished,
                   images, output_image, written, calls, exit_code, exit_cause,
                   cr_vars>>

\* main returns, asyncio.run returns and the interpreter ends normally
MainReturn ==
    /\ exit_code = Running
    /\ ready # <<>>
    /\ Head(ready).kind = "main_resume"
    /\ main_pc' = "done"
    /\ Exit(0, "finished")
    /\ UNCHANGED <<argv, pdf_files, file_attributes, task_vars, calls, cr_vars>>

RunLastPage ==
    \E i \in DOMAIN ready :
        /\ ready[i].kind = "page"
        /\ \A j \in DOMAIN ready : ready[j].kind = "page" => j <= i
        /\ RunPage(i)

\* asyncio's loop runs the oldest ready callback
RunNextPage == RunPage(1)

\* construct_image_from_page never suspends, so under asyncio's own loop the
\* page tasks finish in queue order (RunNextPage).  gather promises its order
\* of results for tasks that finish in any order: here the page tasks of the
\* file at the head of the queue do
RunAnyPage ==
    \E i \in DOMAIN ready :
        /\ ready[i].file = Head(ready).file
        /\ RunPage(i)

Next ==
    \/ ParseFile
    \/ MainGather
    \/ StartFile
    \/ RunNextPage
    \/ PageDoneCallback
    \/ ResumeFile
    \/ FileDoneCallback
    \/ MainReturn

Spec == Init /\ [][Next]_vars

NextPerm ==
    \/ ParseFile
    \/ MainGather
    \/ StartFile
    \/ RunAnyPage
    \/ PageDoneCallback
    \/ ResumeFile
    \/ FileDoneCallback
    \/ MainReturn

SpecPerm == Init /\ [][NextPerm]_vars

-----------------------------------------------------------------------------
(* SpecRect: convert_rect on every height and rect of the bounded sets.     *)

MaxRectLen == 5

\* 1 + 2^-52, the double after 1.0
OnePlusUlp == [neg |-> FALSE, mag |-> {0, FracBits}]

RectCoords == {Num(10), Num(20), Num(80), Num(90), OnePlusUlp}

RectHeights == {Num(4), Num(100)}

RectInputs == UNION {[1..n -> RectCoords] : n \in 0..MaxRectLen}

NoRect == <<>>

InitRect ==
    /\ argv = <<>>
    /\ main_pc = "done"
    /\ pdf_files = <<>>
    /\ file_attributes = <<>>
    /\ ready = <<>>
    /\ file_pc = <<>>
    /\ document = <<>>
    /\ page = <<>>
    /\ bitmap = <<>>
    /\ result = <<>>
    /\ finished = <<>>
    /\ images = <<>>
    /\ output_image = <<>>
    /\ written = <<>>
    /\ files_finished = 0
    /\ calls = <<>>
    /\ exit_code = Running
    /\ exit_cause = "none"
    /\ cr_pc = "call"
    /\ cr_height \in RectHeights
    /\ cr_rect \in RectInputs
    /\ cr_out = NoRect
    /\ cr_back = NoRect

\* a caller applies convert_rect to (page_height, rect)
CallConvertRect ==
    /\ cr_pc = "call"
    /\ LET r == convert_rect(cr_height, cr_rect)
       IN  /\ cr_pc' = IF r.raised THEN "raised" ELSE "returned"
           /\ cr_out' = r.value
    /\ UNCHANGED <<cr_height, cr_rect, cr_back, main_vars, ready, task_vars,
                   calls, exit_code, exit_cause>>

\* the caller applies convert_rect again, to the rectangle it got
ReapplyConvertRect ==
    /\ cr_pc = "returned"
    /\ LET r == convert_rect(cr_height, cr_out)
       IN  /\ cr_pc' = IF r.raised THEN "raised" ELSE "reapplied"
           /\ cr_back' = r.value
    /\ UNCHANGED <<cr_height, cr_rect, cr_out, main_vars, ready, task_vars,
                   calls, exit_code, exit_cause>>

NextRect == CallConvertRect \/ ReapplyConvertRect

SpecRect == InitRect /\ [][NextRect]_vars

-----------------------------------------------------------------------------
(* The claims. *)

Composed(f) == output_image[f] # NoCanvas

Ended == exit_code # Running

Last(q) == q[Len(q)]

RasterizerCalls == {i \in DOMAIN calls : calls[i][1] # "PdfReader"}

\* C1: whenever a file's canvas has been stitched, every page of the file was
\* pasted into it once and the pastes were made in strictly increasing
\* page_index order, whatever the order in which the page tasks completed.
C1_PasteInPageIndexOrder ==
    \A f \in Files :
        Composed(f) =>
            LET pastes == output_image[f].pastes
            IN  /\ Len(pastes) = Len(file_attributes[f])
                /\ \A i, j \in DOMAIN pastes :
                       i < j => pastes[i].page_index < pastes[j].page_index

\* a file of several pages is stitched after its last page finished first
C1_Witness ==
    \E f \in Files :
        /\ Composed(f)
        /\ Len(output_image[f].pastes) >= 2
        /\ finished[f][1] = Len(file_attributes[f])

RECURSIVE SumOfHeights(_, _)
SumOfHeights(attributes, n) ==
    IF n = 0 THEN 0 ELSE attributes[n].height + SumOfHeights(attributes, n - 1)

WidthsOf(f) == [p \in Pages(f) |-> file_attributes[f][p].width]

HeightsOf(f) == [p \in Pages(f) |-> file_attributes[f][p].height]

\* C2: the canvas of a file is as wide as its widest page and as high as the
\* sum of its pages' heights; heights [100,200,150] and widths [50,80,60]
\* give 80 by 450.
C2_CanvasSize ==
    \A f \in Files :
        Composed(f) =>
            /\ output_image[f].width = Max({WidthsOf(f)[p] : p \in Pages(f)})
            /\ output_image[f].height =
                   SumOfHeights(file_attributes[f], Len(file_attributes[f]))
            /\ (WidthsOf(f) = <<50, 80, 60>> /\ HeightsOf(f) = <<100, 200, 150>>)
                   => (output_image[f].width = 80 /\ output_image[f].height = 450)

\* the three pages of the example are stitched into a canvas of 80 by 450
C2_Witness ==
    \E f \in Files :
        /\ Composed(f)
        /\ WidthsOf(f) = <<50, 80, 60>>
        /\ HeightsOf(f) = <<100, 200, 150>>
        /\ output_image[f].width = 80
        /\ output_image[f].height = 450

\* C3: every page is pasted at x = 0, the first at y = 0 and each next one at
\* the row where the one before it ends, and the last one ends at the height
\* of the canvas.
C3_PastesAdjacent ==
    \A f \in Files :
        Composed(f) =>
            LET pastes == output_image[f].pastes
            IN  /\ pastes # <<>>
                /\ pastes[1].y = 0
                /\ \A i \in DOMAIN pastes :
                       /\ pastes[i].x = 0
                       /\ pastes[i].height = file_attributes[f][i].height
                       /\ i < Len(pastes) =>
                              pastes[i + 1].y = pastes[i].y + pastes[i].height
                /\ Last(pastes).y + Last(pastes).height = output_image[f].height

\* the pages of the example occupy rows [0,100), [100,300) and [300,450)
C3_Witness ==
    \E f \in Files :
        /\ Composed(f)
        /\ [i \in DOMAIN output_image[f].pastes |-> output_image[f].pastes[i].y]
               = <<0, 100, 300>>
        /\ output_image[f].height = 450

RectIntegers == {10, 20, 80, 90}

HeightIntegers == {4, 100}

\* C4: a call with a rect of four elements returns, having computed
\* (blx, h - try, trx, h - bly): the x's as given, each y the double nearest
\* to the difference, which for integers is the difference itself; and
\* convert_rect(100, [10, 20, 90, 80]) is (10, 20, 90, 80).
C4_Formula ==
    cr_pc \in {"returned", "reapplied"} =>
        /\ Len(cr_rect) = 4
        /\ cr_out = << cr_rect[1], Float(ExactSub(cr_height, cr_rect[4])),
                       cr_rect[3], Float(ExactSub(cr_height, cr_rect[2])) >>
        /\ \A h \in HeightIntegers, a \in RectIntegers :
               /\ (cr_height = Num(h) /\ cr_rect[4] = Num(a)) => cr_out[2] = Num(h - a)
               /\ (cr_height = Num(h) /\ cr_rect[2] = Num(a)) => cr_out[4] = Num(h - a)
        /\ (cr_height = Num(100) /\ cr_rect = <<Num(10), Num(20), Num(90), Num(80)>>)
               => cr_out = <<Num(10), Num(20), Num(90), Num(80)>>

\* convert_rect(100, [10, 20, 90, 80]) has returned (10, 20, 90, 80)
C4_Witness ==
    /\ cr_pc = "returned"
    /\ cr_height = Num(100)
    /\ cr_rect = <<Num(10), Num(20), Num(90), Num(80)>>
    /\ cr_out = <<Num(10), Num(20), Num(90), Num(80)>>

\* C5, as claimed: applying convert_rect to its own result with the same
\* height gives back the rect it started from, exactly.
C5_RoundTripExact == cr_pc = "reapplied" => cr_back = cr_rect

\* C5, amended: the second application gives back both x's exactly, and gives
\* back a y exactly whenever the difference of the height and that y is a
\* double, so that the first application did not round it.
C5_RoundTripWhenExact ==
    cr_pc = "reapplied" =>
        /\ cr_back[1] = cr_rect[1]
        /\ cr_back[3] = cr_rect[3]
        /\ IsFloat(ExactSub(cr_height, cr_rect[2])) => cr_back[2] = cr_rect[2]
        /\ IsFloat(ExactSub(cr_height, cr_rect[4])) => cr_back[4] = cr_rect[4]

\* a rect of two different integer y's has made the round trip
C5_Witness ==
    /\ cr_pc = "reapplied"
    /\ cr_height = Num(100)
    /\ cr_rect = <<Num(10), Num(20), Num(90), Num(80)>>
    /\ cr_back = cr_rect

\* the page task of page p of file f has ended, by returning or by exiting
PageTaskEnded(f, p) ==
    \/ result[f][p] # NoImage
    \/ /\ exit_cause = "page_failed"
       /\ Last(calls)[2] = f
       /\ Last(calls)[3] = p

\* C6: whenever construct_image_from_page has ended, on whichever path, the
\* page handle it was given is closed and no bitmap it allocated is left.
C6_HandlesReleasedOnEveryExit ==
    \A f \in Files :
        \A p \in DOMAIN result[f] :
            PageTaskEnded(f, p) =>
                (page[f][p] = "closed" /\ bitmap[f][p] # "allocated")

FailureCauses ==
    {"not_pdf", "reader_raised", "no_page", "parse_page_raised", "page_failed",
     "file_failed"}

\* every file of the batch was extracted, rendered and written
AllSucceeded ==
    /\ Len(file_attributes) = Len(argv)
    /\ \A f \in Files :
           /\ file_pc[f] = "done"
           /\ Len(result[f]) = Len(file_attributes[f])
           /\ \A p \in Pages(f) : result[f][p] # NoImage
           /\ Composed(f)
    /\ Len(written) = Len(argv)

\* C7: the process ends with 0 only when every file was extracted, rendered
\* and written, and with 1 at the first failure: a failure ends the process
\* there, with 1, and nothing runs after it.
C7_ExitCodes ==
    /\ exit_code \in {Running, 0, 1}
    /\ exit_code = 0 <=> (Ended /\ AllSucceeded)
    /\ exit_code = 1 <=> exit_cause \in FailureCauses
    /\ exit_code = 1 => (~AllSucceeded /\ ~ENABLED Next)

\* a batch of two files has ended with 0
C7_Witness == exit_code = 0 /\ Len(argv) = 2 /\ Len(written) = 2

\* the paths of the batch that do not end in .pdf
Rejected == {f \in Files : ~EndsWith(Lower(argv[f]), DotPdf)}

\* C8, as claimed: when a path of the batch is rejected for not ending in
\* .pdf, neither the extractor nor the rasterizer has been invoked at all.
C8_NothingInvoked == exit_cause = "not_pdf" => calls = <<>>

\* C8, amended: a path not ending in .pdf is rejected with status 1; the
\* rasterizer is never invoked in a batch that holds one, and the extractor
\* is invoked only on the paths before the first one.
C8_RejectedNotProcessed ==
    \A f \in Rejected :
        /\ Len(file_attributes) < f
        /\ \A i \in DOMAIN calls : calls[i][1] = "PdfReader" /\ calls[i][2] < f
        /\ Ended => exit_code = 1

\* a path is rejected after the path before it was extracted
C8_Witness ==
    /\ exit_cause = "not_pdf"
    /\ Len(file_attributes) >= 1
    /\ calls # <<>>

\* C9: once a document has reported zero pages the process has ended with 1,
\* and no document or page was loaded, no page rendered and no task made.
C9_NoPageFailsBeforeRendering ==
    (exit_cause = "no_page" \/ \E f \in DOMAIN file_attributes : file_attributes[f] = <<>>)
        => /\ exit_code = 1
           /\ exit_cause = "no_page"
           /\ RasterizerCalls = {}
           /\ main_pc = "parsing"
           /\ \A f \in Files : file_pc[f] = "created" /\ document[f] = "none"

\* the second document of a batch reports zero pages, the first had pages
C9_Witness ==
    /\ exit_cause = "no_page"
    /\ Len(file_attributes) >= 1
    /\ Last(calls) = Call("PdfReader", 2, 0)

PageUses == {"FPDF_RenderPageBitmap", "FPDF_ClosePage"}

BitmapUses == {"FPDFBitmap_FillRect", "FPDF_RenderPageBitmap",
               "FPDFBitmap_GetBuffer", "FPDFBitmap_Destroy"}

\* call i is made on the handle of page (or bitmap) p of file f
On(i, ops, f, p) == calls[i][1] \in ops /\ calls[i][2] = f /\ calls[i][3] = p

\* C10: no call is made on a handle after the call that releases it: no page
\* is loaded from a closed document, no page is rendered or closed after it
\* was closed or after its document was closed, no bitmap is used after it
\* was destroyed; and every use of a page comes after its load.
C10_NoUseAfterRelease ==
    \A i \in DOMAIN calls :
        LET f == calls[i][2]
            p == calls[i][3]
            Later == (i + 1)..Len(calls)
        IN  /\ calls[i][1] = "FPDF_CloseDocument" =>
                   \A j \in Later : ~(calls[j][2] = f /\ calls[j][1] # "PdfReader")
            /\ calls[i][1] = "FPDF_ClosePage" =>
                   \A j \in Later : ~On(j, PageUses, f, p)
            /\ calls[i][1] = "FPDFBitmap_Destroy" =>
                   \A j \in Later : ~On(j, BitmapUses, f, p)
            /\ calls[i][1] = "FPDF_LoadPage" =>
                   \A j \in 1..(i - 1) : ~On(j, PageUses, f, p)

\* two files were composed and every handle of theirs released
C10_Witness ==
    /\ exit_code = 0
    /\ Len(argv) = 2
    /\ \A f \in Files : document[f] = "closed" /\ \A p \in Pages(f) : page[f][p] = "closed"

\* C11: when the process has ended, every output file that was written to
\* holds a whole JPEG; and a file's output is written to only after every
\* page of the file was rendered and pasted into its canvas.
C11_OutputWholeOrAbsent ==
    /\ Ended => \A i \in DOMAIN written : written[i].complete
    /\ \A i \in DOMAIN written :
           LET f == written[i].file
           IN  /\ \A p \in Pages(f) : result[f][p] # NoImage
               /\ Len(output_image[f].pastes) = Len(file_attributes[f])

\* C12: every output file is named after its input, the input's path with
\* its extension replaced by .jpg and nothing else changed, so that the
\* outputs of distinct input paths have distinct paths.
C12_OutputNamedAfterInput ==
    /\ \A i \in DOMAIN written :
           written[i].path = RSplitDot(argv[written[i].file]) \o <<".", "j", "p", "g">>
    /\ \A i, j \in DOMAIN written :
           argv[written[i].file] # argv[written[j].file]
               => written[i].path # written[j].path

\* construct_image_from_file of file f has ended: by returning, by exiting
\* from its own handler, or with the exit of one of the page tasks it awaits
FileTaskEnded(f) ==
    \/ file_pc[f] \in {"done", "failed"}
    \/ /\ exit_cause = "page_failed"
       /\ Last(calls)[2] = f

\* C13: whenever construct_image_from_file has ended, on whichever path, the
\* document handle it loaded is released.
C13_DocumentReleasedOnEveryExit ==
    \A f \in Files : FileTaskEnded(f) => document[f] # "open"

\* C14: a call of convert_rect with a rect that has not exactly 4 elements
\* raises and hands back no rectangle, neither a padded nor a truncated one.
C14_WrongLengthRaises ==
    (cr_pc # "call" /\ Len(cr_rect) # 4) =>
        /\ cr_pc = "raised"
        /\ cr_out = NoRect
        /\ cr_back = NoRect

C14_Witness ==
    /\ cr_pc = "raised"
    /\ Len(cr_rect) > 4
    /\ cr_out = NoRect

\* a <= b, for numbers as Python holds them
NumLeq(a, b) ==
    IF a.neg # b.neg THEN a.neg \/ (a.mag = {} /\ b.mag = {})
    ELSE IF a.neg THEN a.mag = b.mag \/ MagLess(b.mag, a.mag)
    ELSE a.mag = b.mag \/ MagLess(a.mag, b.mag)

\* the filled rectangle rect (both corners included, as ImageDraw.rectangle
\* fills it) holds every pixel (0..width-1, 0..height-1) of an image
Covers(rect, width, height) ==
    /\ NumLeq(rect[1], Num(0))
    /\ NumLeq(rect[2], Num(0))
    /\ NumLeq(Num(width - 1), rect[3])
    /\ NumLeq(Num(height - 1), rect[4])

\* file f has a single page whose single annotation spans the whole page
FullPageSingle(f) ==
    /\ Len(file_attributes[f]) = 1
    /\ LET attributes == file_attributes[f][1]
       IN  /\ Len(attributes.annotation_attributes) = 1
           /\ attributes.annotation_attributes[1].rect =
                  << Num(0), Num(0), Num(attributes.width), Num(attributes.height) >>

\* C15: for a document of one page with one annotation [0, 0, width, height],
\* the page image is pasted over the whole canvas and the rectangle drawn on
\* it for the annotation holds every pixel of the canvas.
C15_FullPageHighlightCoversCanvas ==
    \A f \in Files :
        (Composed(f) /\ FullPageSingle(f)) =>
            LET canvas == output_image[f]
                image == images[f][1]
            IN  /\ Len(canvas.pastes) = 1
                /\ canvas.pastes[1].x = 0
                /\ canvas.pastes[1].y = 0
                /\ canvas.pastes[1].width = canvas.width
                /\ canvas.pastes[1].height = canvas.height
                /\ Len(image.highlights) = 1
                /\ Covers(image.highlights[1], canvas.width, canvas.height)

\* the page of 80 by 200 with its full-page annotation, composed alone
C15_Witness ==
    \E f \in Files :
        /\ Composed(f)
        /\ FullPageSingle(f)
        /\ output_image[f].width = 80
        /\ output_image[f].height = 200
        /\ Covers(images[f][1].highlights[1], 80, 200)

\* C16: every AnnotationAttribute that extraction has produced has a rect of
\* exactly 4 elements.
C16_ExtractedRectsHaveFourElements ==
    \A f \in DOMAIN file_attributes :
        \A p \in Pages(f) :
            LET attributes == file_attributes[f][p].annotation_attributes
            IN  \A k \in DOMAIN attributes : Len(attributes[k].rect) = 4

\* the attributes of the references of a page that resolve, in the page's order
ResolvingAttributes(annotations) ==
    LET resolving == SelectSeq(annotations, LAMBDA annotation : annotation.resolves)
    IN  [k \in DOMAIN resolving |->
            AnnotationAttribute(Get(resolving[k].object, "Rect", <<>>),
                                Get(resolving[k].object, "Border", <<>>),
                                Get(resolving[k].object, "V", ""),
                                Get(resolving[k].object, "DV", ""))]

\* C17: parse_page never raises on an annotation reference that does not
\* resolve; the page it returns has one AnnotationAttribute for each
\* reference that resolves, in the order of the page's annotations.
C17_UnresolvableReferenceSkipped ==
    /\ exit_cause # "parse_page_raised"
    /\ \A f \in DOMAIN file_attributes :
           \A p \in Pages(f) :
               file_attributes[f][p].annotation_attributes =
                   ResolvingAttributes(pdf_files[f][p].annotations)

ExtractionFailures == {"not_pdf", "reader_raised", "no_page", "parse_page_raised"}

\* C18: the extractor is invoked on the paths one after another in argument
\* order and before every call into the rasterizer; the rasterizer is called
\* only once every path has been extracted; and when extraction of a path
\* has failed, no document was loaded and no output file was written.
C18_ExtractionBeforeComposition ==
    /\ \A i \in DOMAIN calls : calls[i][1] = "PdfReader" => calls[i][2] = i
    /\ RasterizerCalls # {} => Len(file_attributes) = Len(argv)
    /\ exit_cause \in ExtractionFailures =>
           /\ RasterizerCalls = {}
           /\ written = <<>>
           /\ \A f \in Files : document[f] = "none" /\ file_pc[f] = "created"

\* the first path of two was extracted, the second failed: nothing was loaded
C18_Witness ==
    /\ exit_cause \in ExtractionFailures
    /\ Len(argv) = 2
    /\ Len(file_attributes) = 1
    /\ RasterizerCalls = {}
    /\ written = <<>>

\* the calls construct_image_from_page makes for page p of file f when
\* nothing raises, in the order it makes them
PageTaskCalls(f, p) ==
    RenderCalls(f, p) \o << Call("FPDF_ClosePage", f, p),
                            Call("FPDFBitmap_Destroy", f, p) >>

Creates == {i \in DOMAIN calls : calls[i][1] = "FPDFBitmap_Create"}

\* C19: the calls of one page task are made in one run, with no call of
\* another page task or of a file task between them, so that at most one
\* bitmap is allocated and one page is being rendered at any moment; and the
\* pages of a file are rendered in increasing page_index order.
C19_PageTasksDoNotInterleave ==
    /\ Cardinality({fp \in UNION {{<<f, p>> : p \in DOMAIN bitmap[f]} : f \in Files} :
                       bitmap[fp[1]][fp[2]] = "allocated"}) <= 1
    /\ \A i \in Creates :
           \A k \in 1..6 :
               (i + k - 1 <= Len(calls)) =>
                   calls[i + k - 1] = PageTaskCalls(calls[i][2], calls[i][3])[k]
    /\ \A i, j \in Creates :
           (i < j /\ calls[i][2] = calls[j][2]) => calls[i][3] < calls[j][3]

\* a file of two pages and a file of one page were rendered and written
C19_Witness ==
    /\ exit_code = 0
    /\ Len(argv) = 2
    /\ \E f \in Files : Len(file_attributes[f]) = 2
    /\ Cardinality(Creates) = 3

=============================================================================
